---- MODULE Spec2Model ----
\* Trie root generation of db/src/triehash.rs: nibble conversion, hex-prefix
\* encoding, the recursive node encoder and the three entry points.
\* Byte strings are sequences of integers in 0..255, nibble paths sequences of
\* integers in 0..15, an entry is a pair <<key, value>>.
EXTENDS Integers, Sequences, FiniteSets, TLC

VARIABLES pc, input, gen_input, stream, result, panicked

vars == <<pc, input, gen_input, stream, result, panicked>>

\* ---------------------------------------------------------------- bounds

\* Longest input sequence of (key, value) pairs handed to trie_root / sec_trie_root.
MaxEntries == 3

\* Longest input sequence for which sec_trie_root is called.
MaxSecEntries == 2

\* Length of the long values; a leaf below a branch with a one-nibble suffix
\* then encodes to LongVal + 3 bytes, and the next length to LongVal + 4.
LongVal == 28

\* Longest nibble path handed to hex_prefix_encode on its own.
MaxNibbles == 5

\* Longest value sequence handed to ordered_trie_root.
MaxIndex == 258

\* Width of a digest in bytes (H256).
HashLen == 32

\* ---------------------------------------------------------------- helpers

RECURSIVE Concat(_)
Concat(items) ==
    IF Len(items) = 0 THEN <<>> ELSE Head(items) \o Concat(Tail(items))

\* key[from..to] of Rust, 0-based and half-open; an out-of-range slice (a panic
\* in the code, reported by Panics below) yields the empty path here.
Slice(s, from, to) ==
    IF from <= to /\ to <= Len(s) THEN SubSeq(s, from + 1, to) ELSE <<>>

\* pair.0[idx] of Rust, 0-based; an out-of-range index (a panic in the code,
\* reported by Panics below) yields -1 here, which equals no nibble.
NibAt(key, idx) ==
    IF idx < Len(key) THEN key[idx + 1] ELSE -1

\* The function f of domain 1..n as a sequence with every element computed.
Seq1(f) == <<>> \o f

Rep(b, n) == Seq1([i \in 1..n |-> b])

\* ---------------------------------------------------------------- rlp

\* Big-endian bytes of n without leading zeros (empty for 0).
RECURSIVE BigEndian(_)
BigEndian(n) ==
    IF n = 0 THEN <<>> ELSE BigEndian(n \div 256) \o <<n % 256>>

\* RlpStream::append_empty_data
EmptyData == <<128>>

\* RlpStream::append(&bytes): a byte string as one item.
RlpBytes(b) ==
    IF Len(b) = 1 /\ b[1] < 128 THEN b
    ELSE IF Len(b) <= 55 THEN <<128 + Len(b)>> \o b
    ELSE <<183 + Len(BigEndian(Len(b)))>> \o BigEndian(Len(b)) \o b

\* rlp::encode(&i) of an unsigned integer.
RlpUint(i) == RlpBytes(BigEndian(i))

\* RlpStream::begin_list(n) followed by n items, each already encoded
\* (append and append_raw(_, 1) both add one item's bytes to the payload).
RlpList(items) ==
    LET payload == Concat(items) IN
    IF Len(payload) <= 55 THEN <<192 + Len(payload)>> \o payload
    ELSE <<247 + Len(BigEndian(Len(payload)))>> \o BigEndian(Len(payload)) \o payload

\* ---------------------------------------------------------------- digest

\* The sum over i in lo..hi of x[i] * (i^e mod 251 + 1), modulo 65521.
RECURSIVE WeightedSum(_, _, _, _)
WeightedSum(x, e, lo, hi) ==
    IF lo > hi THEN 0
    ELSE IF lo = hi
    THEN (x[lo] * (((IF e = 1 THEN lo ELSE lo * lo) % 251) + 1)) % 65521
    ELSE LET mid == (lo + hi) \div 2
         IN  (WeightedSum(x, e, lo, mid) + WeightedSum(x, e, mid + 1, hi)) % 65521

\* The sum of the bytes x[j], x[j + HashLen], ..., the k-th weighted 2k + 1.
RECURSIVE LaneSum(_, _, _)
LaneSum(x, j, k) ==
    IF j + HashLen * k > Len(x) THEN 0
    ELSE ((2 * k + 1) * x[j + HashLen * k] + LaneSum(x, j, k + 1)) % 65521

\* Hashable::crypt_hash: a deterministic digest of HashLen bytes, every byte of
\* which depends on the whole preimage.
crypt_hash(x) ==
    LET s == WeightedSum(x, 1, 1, Len(x))
        t == WeightedSum(x, 2, 1, Len(x))
        u == (s + 7 * t + 13 * Len(x) + 99) % 4093
    IN  Seq1([j \in 1..HashLen |->
            (LaneSum(x, j, 0) * (2 * j + 1)
             + ((u + 17 * j) * (u + j * j + 1)) \div 16
             + (s \div 256) + (t \div 251)) % 256])

\* ---------------------------------------------------------------- nibbles

\* Mutant of HexPairs: the two nibbles of a byte in the other order.
HexPairsLowFirst(nibbles, offset) ==
    Seq1([k \in 1..((Len(nibbles) - offset) \div 2) |->
        (((nibbles[offset + 2 * k] * 16) % 256) + nibbles[offset + 2 * k - 1]) % 256])

\* The bytes pushed by the loop `while offset < inlen` that starts at offset:
\* the k-th is (nibbles[o] << 4) + nibbles[o + 1] for o = offset + 2 (k - 1).
HexPairs(nibbles, offset) ==
    Seq1([k \in 1..((Len(nibbles) - offset) \div 2) |->
        (((nibbles[offset + 2 * k - 1] * 16) % 256) + nibbles[offset + 2 * k]) % 256])

\* Mutant of hex_prefix_encode: the first byte holds the flags only and the
\* nibbles are packed from the first one on, the last byte padded.
hex_prefix_encode_padded(nibbles, leaf) ==
    LET inlen == Len(nibbles)
        bits == (((inlen % 2) + (IF leaf THEN 2 ELSE 0)) * 16) % 256
    IN  <<bits>> \o HexPairs(nibbles \o (IF inlen % 2 = 1 THEN <<0>> ELSE <<>>), 0)

hex_prefix_encode(nibbles, leaf) ==
    LET inlen == Len(nibbles)
        oddness_factor == inlen % 2
        bits == (((inlen % 2) + (IF leaf THEN 2 ELSE 0)) * 16) % 256
        first_byte == IF oddness_factor = 1 THEN (bits + nibbles[1]) % 256 ELSE bits
    IN  <<first_byte>> \o HexPairs(nibbles, oddness_factor)

as_nibbles(bytes) ==
    Seq1([n \in 1..(2 * Len(bytes)) |->
        IF n % 2 = 1 THEN bytes[(n + 1) \div 2] \div 16
        ELSE ((bytes[n \div 2] * 16) % 256) \div 16])

\* ---------------------------------------------------------------- normalizer

\* cmp::min
Min(a, b) == IF a < b THEN a ELSE b

\* util::SharedPrefix::shared_prefix_len: the number of leading elements on
\* which a and b agree, counted from the n already found to agree.
RECURSIVE SharedFrom(_, _, _)
SharedFrom(a, b, n) ==
    IF n < Min(Len(a), Len(b)) /\ a[n + 1] = b[n + 1] THEN SharedFrom(a, b, n + 1) ELSE n

shared_prefix_len(a, b) == SharedFrom(a, b, 0)

\* Mutant of BytesLess: the bytes compared as signed.
BytesLessSigned(a, b) ==
    LET n == shared_prefix_len(a, b)
        signed(x) == IF x >= 128 THEN x - 256 ELSE x
    IN  IF n = Len(b) THEN FALSE
        ELSE IF n = Len(a) THEN TRUE
        ELSE signed(a[n + 1]) < signed(b[n + 1])

\* Ord of Vec<u8>, the key order of the BTreeMap: byte-lexicographic, a proper
\* prefix first.
BytesLess(a, b) ==
    LET n == shared_prefix_len(a, b) IN
    IF n = Len(b) THEN FALSE
    ELSE IF n = Len(a) THEN TRUE
    ELSE a[n + 1] < b[n + 1]

\* Mutant of BTreeEntries: the first insertion of a key is the one kept.
BTreeEntriesFirst(pairs) ==
    {i \in 1..Len(pairs) : \A j \in 1..(i - 1) : pairs[j][1] # pairs[i][1]}

\* The map after the pairs are inserted in input order: for each key the
\* position of its last insertion, which replaced the earlier ones.
BTreeEntries(pairs) ==
    {i \in 1..Len(pairs) : \A j \in (i + 1)..Len(pairs) : pairs[j][1] # pairs[i][1]}

\* Mutant of BTreeCollect: the entries of the map in insertion order.
BTreeCollectUnsorted(pairs) ==
    LET live == BTreeEntries(pairs)
        rank == Seq1([i \in 1..Len(pairs) |->
                    IF i \in live THEN 1 + Cardinality({j \in live : j < i}) ELSE 0])
    IN  Seq1([r \in 1..Cardinality(live) |-> pairs[CHOOSE i \in live : rank[i] = r]])

\* collect::<BTreeMap<_, _>>() then into_iter(): the entries of the map in
\* ascending key order.
BTreeCollect(pairs) ==
    LET live == BTreeEntries(pairs)
        rank == Seq1([i \in 1..Len(pairs) |->
                    IF i \in live
                    THEN 1 + Cardinality({j \in live : BytesLess(pairs[j][1], pairs[i][1])})
                    ELSE 0])
    IN  Seq1([r \in 1..Cardinality(live) |-> pairs[CHOOSE i \in live : rank[i] = r]])

\* .map(|(k, v)| (as_nibbles(&k), v)).collect()
NibbleKeys(map) ==
    Seq1([i \in 1..Len(map) |-> <<as_nibbles(map[i][1]), map[i][2]>>])

\* ---------------------------------------------------------------- trie encoder

\* input.iter().skip(1).fold(key.len(), |acc, k| min(key.shared_prefix_len(k), acc)):
\* the least of key.len() and the lengths shared with each later entry.
SharedPrefix(range) ==
    LET key == range[1][1]
        lens == {Len(key)} \cup {shared_prefix_len(key, range[n][1]) : n \in 2..Len(range)}
    IN  CHOOSE m \in lens : \A l \in lens : m <= l

\* input[begin..].iter().take_while(|pair| pair.0[pre_len] == i).count(), with
\* pos the 1-based position of the next entry looked at.
RECURSIVE TakeWhileCount(_, _, _, _)
TakeWhileCount(range, pos, pre_len, i) ==
    IF pos <= Len(range) /\ NibAt(range[pos][1], pre_len) = i
    THEN 1 + TakeWhileCount(range, pos + 1, pre_len, i)
    ELSE 0

\* Mutant of BranchBegin: the loop starts at the first entry in every case.
BranchBeginZero(range, pre_len) == 0

\* let mut begin = match pre_len == key.len() { true => 1, false => 0 }
BranchBegin(range, pre_len) ==
    IF pre_len = Len(range[1][1]) THEN 1 ELSE 0

\* The loop `for i in 0..16` of hash256rlp from nibble i on: for each nibble
\* the value of begin before the iteration and the len it counts.
RECURSIVE BranchSlots(_, _, _, _)
BranchSlots(range, pre_len, i, begin) ==
    IF i = 16 THEN <<>>
    ELSE LET len == IF begin < Len(range)
                    THEN TakeWhileCount(range, begin + 1, pre_len, i)
                    ELSE 0
         IN  <<[begin |-> begin, len |-> len]>>
             \o BranchSlots(range, pre_len, i + 1, begin + len)

\* Mutant of BranchValue: the 17th item is empty data in every case.
BranchValueEmpty(range, pre_len) == EmptyData

\* The 17th item of a branch: the value of the first entry if its key ends at
\* pre_len, else empty data.
BranchValue(range, pre_len) ==
    IF pre_len = Len(range[1][1]) THEN RlpBytes(range[1][2]) ELSE EmptyData

RECURSIVE hash256rlp(_, _)
RECURSIVE hash256aux(_, _)

\* What hash256rlp appends to its stream for the range at depth pre_len.
hash256rlp(range, pre_len) ==
    IF Len(range) = 0 THEN EmptyData
    ELSE
    LET key == range[1][1]
        value == range[1][2]
        shared_prefix == SharedPrefix(range)
        slots == BranchSlots(range, pre_len, 0, BranchBegin(range, pre_len))
    IN  IF Len(range) = 1
        THEN RlpList(<<RlpBytes(hex_prefix_encode(Slice(key, pre_len, Len(key)), TRUE)),
                       RlpBytes(value)>>)
        ELSE IF shared_prefix > pre_len
        THEN RlpList(<<RlpBytes(hex_prefix_encode(Slice(key, pre_len, shared_prefix), FALSE)),
                       hash256aux(range, shared_prefix)>>)
        ELSE RlpList(Seq1([s \in 1..16 |->
                         IF slots[s].len = 0 THEN EmptyData
                         ELSE hash256aux(SubSeq(range, slots[s].begin + 1,
                                                slots[s].begin + slots[s].len),
                                         pre_len + 1)])
                     \o <<BranchValue(range, pre_len)>>)

\* Mutant of hash256aux: an encoding of 32 bytes is still appended raw.
hash256aux_upto32(range, pre_len) ==
    LET out == hash256rlp(range, pre_len) IN
    IF Len(out) <= 32 THEN out ELSE RlpBytes(crypt_hash(out))

\* What hash256aux appends to the parent's stream: the child's encoding raw,
\* or its digest as a byte string.
hash256aux(range, pre_len) ==
    LET out == hash256rlp(range, pre_len) IN
    IF Len(out) <= 31 THEN out ELSE RlpBytes(crypt_hash(out))

\* stream.out() of gen_trie_root
RootStream(gen) == hash256rlp(gen, 0)

\* Mutant of RootDigest: a short encoding is returned as it is, as for a child.
RootDigestUnlessShort(out) == IF Len(out) <= 31 THEN out ELSE crypt_hash(out)

\* stream.out().crypt_hash()
RootDigest(out) == crypt_hash(out)

gen_trie_root(gen) == RootDigest(RootStream(gen))

\* ---------------------------------------------------------------- entry points

TrieInput(pairs) == NibbleKeys(BTreeCollect(pairs))

trie_root(pairs) == gen_trie_root(TrieInput(pairs))

\* .map(|(k, v)| (k.crypt_hash().to_vec(), v))
HashKeys(pairs) ==
    Seq1([i \in 1..Len(pairs) |-> <<crypt_hash(pairs[i][1]), pairs[i][2]>>])

\* Mutant of SecTrieInput: the keys are hashed after the map has ordered them.
SecTrieInputHashAfterSort(pairs) ==
    NibbleKeys(HashKeys(BTreeCollect(pairs)))

SecTrieInput(pairs) ==
    NibbleKeys(BTreeCollect(HashKeys(pairs)))

sec_trie_root(pairs) == gen_trie_root(SecTrieInput(pairs))

\* The key of the value at 0-based position i: rlp::encode(&i).into_vec()
IndexKey(i) == RlpUint(i)

\* .enumerate().map(|(i, vec)| (rlp::encode(&i).into_vec(), vec))
Enumerate(values) ==
    Seq1([p \in 1..Len(values) |-> <<IndexKey(p - 1), values[p]>>])

OrderedTrieInput(values) ==
    NibbleKeys(BTreeCollect(Enumerate(values)))

ordered_trie_root(values) == gen_trie_root(OrderedTrieInput(values))

\* ---------------------------------------------------------------- calls reached

\* The (range, pre_len) of the hash256rlp calls that hash256rlp(range, pre_len)
\* makes through hash256aux.
ChildCalls(range, pre_len) ==
    IF Len(range) <= 1 THEN {}
    ELSE
    LET shared_prefix == SharedPrefix(range)
        slots == BranchSlots(range, pre_len, 0, BranchBegin(range, pre_len))
    IN  IF shared_prefix > pre_len
        THEN {[range |-> range, pre_len |-> shared_prefix]}
        ELSE {[range |-> SubSeq(range, slots[s].begin + 1, slots[s].begin + slots[s].len),
               pre_len |-> pre_len + 1] : s \in {t \in 1..16 : slots[t].len > 0}}

\* Every hash256rlp call reached from hash256rlp(range, pre_len), itself included.
RECURSIVE Calls(_, _)
Calls(range, pre_len) ==
    {[range |-> range, pre_len |-> pre_len]}
    \cup UNION {Calls(c.range, c.pre_len) : c \in ChildCalls(range, pre_len)}

\* The value of begin when the loop `for i in 0..16` of the call ends (the
\* range length for a call that does not reach the loop).
FinalBegin(range, pre_len) ==
    IF Len(range) <= 1 \/ SharedPrefix(range) > pre_len THEN Len(range)
    ELSE LET last == BranchSlots(range, pre_len, 0, BranchBegin(range, pre_len))[16]
         IN  last.begin + last.len

\* Whether the call itself indexes or slices a key out of bounds:
\* key[pre_len..] of the leaf, key[pre_len..shared_prefix] of the extension,
\* pair.0[pre_len] of the entry at which a take_while of the branch looks.
OutOfBounds(range, pre_len) ==
    IF Len(range) = 0 THEN FALSE
    ELSE IF Len(range) = 1 THEN pre_len > Len(range[1][1])
    ELSE IF SharedPrefix(range) > pre_len THEN FALSE
    ELSE LET slots == BranchSlots(range, pre_len, 0, BranchBegin(range, pre_len))
         IN  \E s \in 1..16 :
                 /\ slots[s].begin < Len(range)
                 /\ slots[s].begin + slots[s].len < Len(range)
                 /\ Len(range[slots[s].begin + slots[s].len + 1][1]) <= pre_len

\* Whether gen_trie_root(gen) panics on an out-of-bounds access.
Panics(gen) == \E c \in Calls(gen, 0) : OutOfBounds(c.range, c.pre_len)

\* ---------------------------------------------------------------- inputs

Keys == {<<>>, <<1>>, <<16>>, <<1, 0>>}

Values == {<<>>, Rep(7, LongVal), Rep(7, LongVal + 1)}

\* Each key with two of the values: the keys of even byte length with the empty
\* value and a long one, the others with the two long ones.
Pairs ==
    {kv \in Keys \X Values :
        IF Len(kv[1]) % 2 = 0 THEN Len(kv[2]) <= LongVal ELSE Len(kv[2]) >= LongVal}

PairSeqs == UNION {[1..n -> Pairs] : n \in 0..MaxEntries}

\* ---------------------------------------------------------------- state machine

Init ==
    /\ pc = "start"
    /\ input \in PairSeqs
    /\ gen_input = <<>>
    /\ stream = <<>>
    /\ result = <<>>
    /\ panicked = FALSE

\* A call of gen_trie_root(gen) that returns under the name fn, or panics.
Returns(fn, gen) ==
    /\ gen_input' = gen
    /\ panicked' = Panics(gen_input')
    /\ stream' = IF panicked' THEN <<>> ELSE RootStream(gen_input')
    /\ result' = IF panicked' THEN <<>> ELSE RootDigest(stream')
    /\ pc' = IF panicked' THEN "panicked" ELSE fn
    /\ UNCHANGED input

CallTrieRoot ==
    /\ pc = "start"
    /\ Returns("trie_root", TrieInput(input))

CallSecTrieRoot ==
    /\ pc = "start"
    /\ Len(input) <= MaxSecEntries
    /\ Returns("sec_trie_root", SecTrieInput(input))

Next == CallTrieRoot \/ CallSecTrieRoot

Spec == Init /\ [][Next]_vars

\* hex_prefix_encode called on its own.
Nibbles == {0, 1, 8, 15}

NibbleSeqs == UNION {[1..n -> Nibbles] : n \in 0..MaxNibbles}

InitHex ==
    /\ pc = "start"
    /\ input \in NibbleSeqs \X BOOLEAN
    /\ gen_input = <<>>
    /\ stream = <<>>
    /\ result = <<>>
    /\ panicked = FALSE

CallHexPrefixEncode ==
    /\ pc = "start"
    /\ result' = hex_prefix_encode(input[1], input[2])
    /\ pc' = "hex_prefix_encode"
    /\ UNCHANGED <<input, gen_input, stream, panicked>>

NextHex == CallHexPrefixEncode

SpecHex == InitHex /\ [][NextHex]_vars

\* ordered_trie_root: the value at 0-based position i names i in two bytes.
IndexValue(i) == <<i \div 256, i % 256>>

ValueIndex(v) == v[1] * 256 + v[2]

InitOrdered ==
    /\ pc = "start"
    /\ \E n \in 0..MaxIndex : input = [p \in 1..n |-> IndexValue(p - 1)]
    /\ gen_input = <<>>
    /\ stream = <<>>
    /\ result = <<>>
    /\ panicked = FALSE

CallOrderedTrieRoot ==
    /\ pc = "start"
    /\ Returns("ordered_trie_root", OrderedTrieInput(input))

NextOrdered == CallOrderedTrieRoot

SpecOrdered == InitOrdered /\ [][NextOrdered]_vars

\* ================================================================ claims

\* ---------------------------------------------------------------- helpers

DistinctKeys(pairs) ==
    \A i, j \in 1..Len(pairs) : i # j => pairs[i][1] # pairs[j][1]

Perms(n) == {p \in [1..n -> 1..n] : \A a, b \in 1..n : a # b => p[a] # p[b]}

Permute(pairs, p) == Seq1([i \in 1..Len(pairs) |-> pairs[p[i]]])

\* The sequence that keeps, for each key, only its last occurrence.
RECURSIVE KeepLast(_)
KeepLast(pairs) ==
    IF Len(pairs) = 0 THEN <<>>
    ELSE IF \E j \in 2..Len(pairs) : pairs[j][1] = pairs[1][1]
    THEN KeepLast(Tail(pairs))
    ELSE <<Head(pairs)>> \o KeepLast(Tail(pairs))

\* The key -> value maps of the model, each as its entries in ascending key order.
AllMaps == {BTreeCollect(pairs) : pairs \in {q \in PairSeqs : DistinctKeys(q)}}

NoEmptyValue(map) == \A i \in 1..Len(map) : Len(map[i][2]) > 0

\* The top-level encoding that gen_trie_root hashes, for every map of the model.
EncodingOf == [m \in AllMaps |-> RootStream(NibbleKeys(m))]

\* The digest gen_trie_root returns, for every map of the model.
DigestOf == [m \in AllMaps |-> RootDigest(EncodingOf[m])]

\* The nibble path and the flag read back from a hex-prefix encoding.
HexPrefixDecode(bytes) ==
    <<(IF (bytes[1] \div 16) % 2 = 1 THEN <<bytes[1] % 16>> ELSE <<>>)
          \o as_nibbles(Tail(bytes)),
      (bytes[1] \div 16) \div 2 = 1>>

\* The hash256rlp calls made through hash256aux while gen_trie_root(gen) runs.
AuxCalls(gen) ==
    UNION {ChildCalls(c.range, c.pre_len) : c \in Calls(gen, 0)}

\* ---------------------------------------------------------------- C1

\* C1: trie_root of every permutation of an input with pairwise distinct keys
\* returns the digest that trie_root of the input returns.
C1_OrderIndependence ==
    (pc = "trie_root" /\ DistinctKeys(input)) =>
        \A p \in Perms(Len(input)) : trie_root(Permute(input, p)) = result

\* Three entries with distinct keys, handed over out of key order.
C1_Witness ==
    /\ pc = "trie_root"
    /\ Len(input) = 3
    /\ DistinctKeys(input)
    /\ BytesLess(input[3][1], input[1][1])
    /\ BytesLess(input[1][1], input[2][1])

\* ---------------------------------------------------------------- C2

\* C2 as stated: every other map of the model, empty keys and empty values
\* included, has a top-level encoding other than the one of the input's map.
C2_UniqueEncoding ==
    pc = "trie_root" =>
        \A m \in AllMaps : m # BTreeCollect(input) => EncodingOf[m] # stream

\* C2 amended: two maps without empty values that differ in a key or a value
\* have different top-level encodings, and different digests.
C2_UniqueEncodingNoEmptyValue ==
    (pc = "trie_root" /\ NoEmptyValue(input)) =>
        \A m \in AllMaps :
            (NoEmptyValue(m) /\ m # BTreeCollect(input)) =>
                /\ EncodingOf[m] # stream
                /\ DigestOf[m] # result

\* A map of three entries without empty values whose empty key ends at the
\* root branch, beside the map without that key.
C2_Witness ==
    /\ pc = "trie_root"
    /\ NoEmptyValue(input)
    /\ Len(gen_input) = 3
    /\ Len(gen_input[1][1]) = 0
    /\ Tail(BTreeCollect(input)) \in AllMaps

\* ---------------------------------------------------------------- C3

\* C3: trie_root of a single entry (k, v) is the digest of the encoding of the
\* list [hex_prefix_encode(as_nibbles(k), TRUE), v], a digest of HashLen bytes
\* whatever the length of that encoding.
C3_SingleEntry ==
    (pc = "trie_root" /\ Len(input) = 1) =>
        /\ result = crypt_hash(RlpList(<<RlpBytes(hex_prefix_encode(as_nibbles(input[1][1]), TRUE)),
                                         RlpBytes(input[1][2])>>))
        /\ Len(result) = HashLen

\* A single entry whose encoding is at most 31 bytes long.
C3_Witness ==
    /\ pc = "trie_root"
    /\ Len(input) = 1
    /\ Len(stream) <= 31
    /\ Len(input[1][2]) > 0

\* ---------------------------------------------------------------- C4

\* C4: sec_trie_root of an input returns what trie_root returns for the same
\* list with every key replaced by its digest.
C4_SecEqualsPrehashed ==
    pc = "sec_trie_root" => result = trie_root(HashKeys(input))

\* Two entries whose digests are in the other order than their keys.
C4_Witness ==
    /\ pc = "sec_trie_root"
    /\ Len(input) = 2
    /\ BytesLess(input[1][1], input[2][1])
    /\ BytesLess(crypt_hash(input[2][1]), crypt_hash(input[1][1]))

\* ---------------------------------------------------------------- C5

\* C5: trie_root of an input returns what trie_root returns for the input
\* reduced to the last occurrence of each key.
C5_LastInsertionWins ==
    pc = "trie_root" => result = trie_root(KeepLast(input))

\* A key inserted twice with different values, another key in between.
C5_Witness ==
    /\ pc = "trie_root"
    /\ Len(input) = 3
    /\ input[1][1] = input[3][1]
    /\ input[1][2] # input[3][2]
    /\ input[2][1] # input[1][1]

\* ---------------------------------------------------------------- C6

\* C6 as stated: in the normalized vector of ordered_trie_root the entries
\* stand in ascending order of their input positions, position 0 included.
C6_IndexOrder ==
    pc = "ordered_trie_root" =>
        \A r, s \in 1..Len(gen_input) :
            r < s => ValueIndex(gen_input[r][2]) < ValueIndex(gen_input[s][2])

\* C6 amended: the entries of the positions 1 and above stand in ascending
\* order of their input positions.
C6_IndexOrderFromOne ==
    pc = "ordered_trie_root" =>
        \A r, s \in 1..Len(gen_input) :
            (r < s /\ ValueIndex(gen_input[r][2]) >= 1 /\ ValueIndex(gen_input[s][2]) >= 1)
                => ValueIndex(gen_input[r][2]) < ValueIndex(gen_input[s][2])

\* An input long enough for keys of one, two and three bytes, with the entry
\* of position 0 between those of the positions 127 and 128.
C6_Witness ==
    /\ pc = "ordered_trie_root"
    /\ Len(input) > 257
    /\ Len(IndexKey(127)) = 1
    /\ Len(IndexKey(128)) = 2
    /\ Len(IndexKey(256)) = 3
    /\ ValueIndex(gen_input[127][2]) = 127
    /\ ValueIndex(gen_input[128][2]) = 0
    /\ ValueIndex(gen_input[129][2]) = 128

\* ---------------------------------------------------------------- C7

\* C7: the first byte of hex_prefix_encode(n, leaf) holds (len(n) mod 2) +
\* 2 * leaf in its high nibble and n[0] (odd length) or 0 (even length) in its
\* low nibble, the bytes after it hold the remaining nibbles two per byte,
\* high nibble first, and (n, leaf) is read back from the output.
C7_HexPrefixContent ==
    pc = "hex_prefix_encode" =>
        LET n == input[1]
            odd == Len(n) % 2
        IN  /\ result[1] \div 16 = odd + (IF input[2] THEN 2 ELSE 0)
            /\ result[1] % 16 = (IF odd = 1 THEN n[1] ELSE 0)
            /\ Len(result) = 1 + (Len(n) - odd) \div 2
            /\ \A k \in 1..((Len(n) - odd) \div 2) :
                   /\ result[1 + k] \div 16 = n[odd + 2 * k - 1]
                   /\ result[1 + k] % 16 = n[odd + 2 * k]
            /\ HexPrefixDecode(result) = input

\* A leaf path of odd length with nibbles beyond the first.
C7_Witness ==
    /\ pc = "hex_prefix_encode"
    /\ input[2]
    /\ Len(input[1]) = 5
    /\ input[1][1] = 15
    /\ input[1][2] # input[1][3]

\* ---------------------------------------------------------------- C8

\* C8 as stated: hex_prefix_encode(n, leaf) is ceiling((len(n) + 2) / 2) bytes long.
C8_LengthCeiling ==
    pc = "hex_prefix_encode" => Len(result) = (Len(input[1]) + 3) \div 2

\* C8 amended: hex_prefix_encode(n, leaf) is floor((len(n) + 2) / 2) bytes
\* long, which is the ceiling for the even lengths only.
C8_LengthFloor ==
    pc = "hex_prefix_encode" => Len(result) = (Len(input[1]) + 2) \div 2

\* The encoding of a path of odd length.
C8_Witness ==
    /\ pc = "hex_prefix_encode"
    /\ Len(input[1]) = 3
    /\ Len(result) = 2

\* ---------------------------------------------------------------- C9

\* C9: a child whose encoding is at most 31 bytes long is appended to the
\* parent unchanged, a child whose encoding is 32 bytes or longer as the byte
\* string of its digest.
C9_EmbedHashBoundary ==
    pc = "trie_root" =>
        \A c \in AuxCalls(gen_input) :
            LET out == hash256rlp(c.range, c.pre_len)
                item == hash256aux(c.range, c.pre_len)
            IN  /\ Len(out) <= 31 => item = out
                /\ Len(out) >= 32 => item = <<128 + HashLen>> \o crypt_hash(out)

\* A branch with a child of exactly 31 bytes and a child of exactly 32 bytes.
C9_Witness ==
    /\ pc = "trie_root"
    /\ \E c \in AuxCalls(gen_input) : Len(hash256rlp(c.range, c.pre_len)) = 31
    /\ \E c \in AuxCalls(gen_input) : Len(hash256rlp(c.range, c.pre_len)) = 32

\* ---------------------------------------------------------------- C10

\* C10: a call of trie_root returns without an out-of-bounds access, and every
\* hash256rlp call it reaches has all keys of its range of length >= pre_len
\* and equal on their first pre_len nibbles, at most one key of length pre_len
\* and that key first, and a loop over the 16 nibbles that ends with begin at
\* the range length.
C10_Totality ==
    pc # "start" =>
        /\ pc # "panicked"
        /\ \A c \in Calls(gen_input, 0) :
               /\ \A e \in 1..Len(c.range) :
                      /\ Len(c.range[e][1]) >= c.pre_len
                      /\ SubSeq(c.range[e][1], 1, c.pre_len)
                             = SubSeq(c.range[1][1], 1, c.pre_len)
                      /\ Len(c.range[e][1]) = c.pre_len => e = 1
               /\ ~OutOfBounds(c.range, c.pre_len)
               /\ FinalBegin(c.range, c.pre_len) = Len(c.range)

\* The empty key beside a key that is a prefix of a third key.
C10_Witness ==
    /\ pc = "trie_root"
    /\ Len(gen_input) = 3
    /\ Len(gen_input[1][1]) = 0
    /\ Len(gen_input[2][1]) < Len(gen_input[3][1])
    /\ SubSeq(gen_input[3][1], 1, Len(gen_input[2][1])) = gen_input[2][1]

====
